---- MODULE Spec2Model ----
(***************************************************************************)
(* Model of the lecturer app of the QR attendance system: the login view   *)
(* with its rate limiter and lockout counter, registration and the e-mail  *)
(* verification token, and the e-mail change challenge of the Lecturer     *)
(* model.  Time is counted in minutes.  Every view or model method is one  *)
(* action; a request is handled as one step.                               *)
(***************************************************************************)
EXTENDS Integers, Sequences, FiniteSets, Bags, TLC

\* ---------------------------------------------------------------- bounds
MaxUsers == 2        \* primary keys 1..MaxUsers of the Lecturer table
MaxIps == 2          \* client addresses 1..MaxIps
MaxTicks == 2        \* number of clock advances in a run
MaxTokens == 6       \* number of tokens generated in a run
MaxCodes == 1        \* distinct 6-digit codes drawn
MaxLedger == 6       \* rows of the LoginAttempt table
MaxSeedFailed == 5   \* largest failed_login_attempts of a pre-existing row
MaxProcs == 2        \* requests in flight at once
MaxCourses == 2      \* primary keys 1..MaxCourses of the Course table
MaxAttendances == 2  \* primary keys 1..MaxAttendances of the Attendance table
MaxIssued == 3       \* QR payloads recorded in a run

\* ------------------------------------------------------ program constants
None == -1                    \* Python None in a nullable number-like field
Absent == -2                  \* an attribute the instance does not have
LOGIN_MAX_ATTEMPTS == 5       \* views.py: max_attempts=5
LOGIN_WINDOW_MINUTES == 15    \* views.py: window_minutes=15
LOCKOUT_THRESHOLD == 5        \* views.py: failed_login_attempts >= 5
LOCKOUT_MINUTES == 15         \* views.py: timedelta(minutes=15)
TOKEN_VALID_MINUTES == 1440   \* utils.py: timedelta(hours=24)
EMAIL_CHANGE_MINUTES == 15    \* models.py: timedelta(minutes=15)
TOKEN_LENGTH == 32            \* utils.py: range(32)
RESEND_MAX_ATTEMPTS == 3      \* views.py: max_attempts=3
REGISTER_MAX_ATTEMPTS == 5    \* views.py: max_attempts=5
HOUR_WINDOW_MINUTES == 60     \* views.py: window_minutes=60

Users == 1..MaxUsers
Ips == 1..MaxIps
Codes == 1..MaxCodes
NoUser == 0

\* an e-mail address is <<local part, domain>>; a username <<base, counter>>
Emails == {<<"a", "x">>, <<"b", "x">>}
NoEmail == <<"", "">>
NoName == <<"", 0>>
Passwords == {"pw"}
WrongPassword == "bad"

VARIABLES
    now,          \* timezone.now(), in minutes
    ticks,        \* clock advances so far
    db,           \* Lecturer rows (with the attributes of the loaded instance)
    ledger,       \* LoginAttempt rows, as a bag (row -> number of copies)
    sessions,     \* accounts with an established session
    login_log,    \* LoginLog rows, as the set of <<lecturer, action>>
    next_token,   \* tokens generated so far
    last,         \* the last request and its outcome
    streak,       \* per account: consecutive failed login_view attempts
    ipFails,      \* per address: failed login_view attempts
    superseded,   \* per account: registration tokens replaced by a new issue
    consumed,     \* per account: the challenges that were redeemed
    viaRegister,  \* per account: created by register / mail failed there
    issued,       \* the QR payloads built, each with what it was built from
    inflight,     \* per concurrent request: its position and loaded instance
    courses,      \* Course rows
    attendances   \* Attendance rows, by primary key

vars == <<now, ticks, db, ledger, sessions, login_log, next_token, last,
          streak, ipFails, superseded, consumed, viaRegister, issued,
          inflight,
          courses, attendances>>

\* what the account requests handled in one piece never touch
aside == <<inflight, courses, attendances>>

ghost == <<streak, ipFails, superseded, consumed, viaRegister, issued>>

\* ------------------------------------------------------------- Lecturer
Blank ==
    [exists |-> FALSE, username |-> NoName, email |-> NoEmail, password |-> "",
     is_active |-> FALSE, email_verified |-> FALSE,
     verification_token |-> None, verification_token_created |-> None,
     verification_code |-> None, verification_code_created |-> None,
     new_email |-> NoEmail, email_change_token |-> None,
     email_change_token_created |-> None,
     email_verification_code |-> Absent,
     email_verification_code_created |-> Absent,
     failed_login_attempts |-> 0, last_failed_login |-> None]

\* the rows an administrator can have stored before the run (admin site)
SeedAccounts ==
    { [Blank EXCEPT !.exists = TRUE, !.username = <<"a", 0>>,
                    !.email = <<"a", "x">>, !.password = "pw",
                    !.is_active = act, !.email_verified = ver,
                    !.failed_login_attempts = f, !.last_failed_login = lf] :
        act \in BOOLEAN, ver \in BOOLEAN, f \in 0..MaxSeedFailed,
        lf \in {None, 0} }

\* a file name and a URL are tuples; a JSON body has these keys, or lacks them
NoFile == <<>>
NoUrl == <<>>
NoBody ==
    [success |-> "absent", qr_code_url |-> NoUrl, message |-> "absent",
     error |-> "absent"]

NoLast ==
    [op |-> "none", user |-> NoUser, ip |-> 0, result |-> "none",
     token |-> None, prevFailed |-> 0, appended |-> 0, matched |-> FALSE,
     age |-> None, course |-> 0, fault |-> "none", body |-> NoBody,
     payload |-> <<>>, method |-> "", student_name |-> "",
     student_admin_no |-> ""]

NoStreak == [n |-> 0, first |-> None]

\* the requests that can be in flight at once
Procs == 1..MaxProcs

\* a request that has not started: no instance loaded
Idle ==
    [pc |-> "idle", op |-> "none", user |-> NoUser, arg |-> None,
     inst |-> Blank, result |-> "none"]

\* Course rows: the primary keys, and a key with no row
CourseIds == 1..MaxCourses
NoCourse ==
    [exists |-> FALSE, lecturer |-> NoUser, title |-> <<>>, day |-> "",
     start_time |-> <<0, 0, 0>>, end_time |-> <<0, 0, 0>>,
     qr_code |-> NoFile, qr_code_url |-> NoUrl]

\* Attendance rows: the primary keys, and a key with no row
AttendanceIds == 1..MaxAttendances
NoAttendance ==
    [exists |-> FALSE, course |-> 0, student_name |-> "",
     student_admin_no |-> "", timestamp |-> None]

\* no request in flight, no course and no attendance record yet
InitAside ==
    /\ inflight = [p \in Procs |-> Idle]
    /\ courses = [c \in CourseIds |-> NoCourse]
    /\ attendances = [k \in AttendanceIds |-> NoAttendance]

\* ---------------------------------------------------------------- helpers
Min(a, b) == IF a <= b THEN a ELSE b
Max(a, b) == IF a >= b THEN a ELSE b

\* Lecturer.objects.filter(username=...) / filter(email=...) / filter(token=...)
ByUsername(uname) == {u \in Users : db[u].exists /\ db[u].username = uname}
ByEmail(email) == {u \in Users : db[u].exists /\ db[u].email = email}
ByToken(token) ==
    {u \in Users : db[u].exists /\ db[u].verification_token = token}

\* the key strings the views build: f"login_ip_{ip}", f"register_{ip}", ...
\* a raw address (as stored in LoginAttempt.ip_address) is <<"", ip>>
RawIp(ip) == <<"", ip>>
\* a login key that is the address itself, as log_login_attempt stores it
LoginKey_RawAddress(ip) == <<"", ip>>

LoginKey(ip) == <<"login_ip_", ip>>
ResendKey(ip) == <<"resend_verify_", ip>>
RegisterKey(ip) == <<"register_", ip>>
NoUsername == NoName

\* ---------------------------------------------------------- rate limiter
RECURSIVE Copies(_, _)
\* the number of rows of the table among the row values in S
Copies(rows, S) ==
    IF S = {} THEN 0
    ELSE LET r == CHOOSE x \in S : TRUE
         IN rows[r] + Copies(rows, S \ {r})

\* the same filter without its time window
FailedByIp_IgnoresWindow(rows, value, cutoff_time) ==
    {r \in DOMAIN rows : r.ip_address = value /\ ~r.successful}

\* .filter(ip_address=value, timestamp__gte=cutoff, successful=False)
FailedByIp(rows, value, cutoff_time) ==
    {r \in DOMAIN rows : /\ r.ip_address = value
                         /\ r.timestamp >= cutoff_time
                         /\ ~r.successful}

\* .filter(username=value, timestamp__gte=cutoff, successful=False)
FailedByUsername(rows, value, cutoff_time) ==
    {r \in DOMAIN rows : /\ r.username = value
                         /\ r.timestamp >= cutoff_time
                         /\ ~r.successful}

\* .order_by('timestamp').first(): the timestamp of the oldest row, or None
OldestTimestamp(S) ==
    IF S = {} THEN None
    ELSE CHOOSE t \in {r.timestamp : r \in S} :
            \A r \in S : t <= r.timestamp

check_rate_limit(ip_address, username, max_attempts, window_minutes) ==
    LET cutoff_time == now - window_minutes
        ip_attempts == Copies(ledger, FailedByIp(ledger, ip_address, cutoff_time))
        username_attempts ==
            IF username # NoUsername
            THEN Copies(ledger, FailedByUsername(ledger, username, cutoff_time))
            ELSE 0
        total_attempts == Max(ip_attempts, username_attempts)
        is_blocked == total_attempts >= max_attempts
        oldest == OldestTimestamp(FailedByIp(ledger, ip_address, cutoff_time))
    IN [is_blocked |-> is_blocked,
        total_attempts |-> total_attempts,
        time_until_reset |->
            IF is_blocked /\ oldest # None
            THEN (oldest + window_minutes) - now ELSE None]

\* LoginAttempt.objects.create(ip_address, username, successful)
log_login_attempt(rows, ip_address, username, successful) ==
    rows (+) SetToBag({[ip_address |-> ip_address, username |-> username,
                        timestamp |-> now, successful |-> successful]})

\* ------------------------------------------------------------------ clock
Tick(d) ==
    /\ ticks < MaxTicks
    /\ now' = now + d
    /\ ticks' = ticks + 1
    /\ last' = [NoLast EXCEPT !.op = "tick"]
    /\ UNCHANGED <<db, ledger, sessions, login_log, next_token, aside>>

\* ------------------------------------------------------------- login_view
\* lines 70-83: the lockout check.  Line 71 binds time_since_last_attempt,
\* line 72 reads time_since_attempt, a name that is never bound: NameError.
LockoutCheck(acct) ==
    IF acct.failed_login_attempts >= LOCKOUT_THRESHOLD
       /\ acct.last_failed_login # None
    THEN "NameError"
    ELSE "pass"

\* django.contrib.auth.authenticate with the ModelBackend: the user of that
\* name whose password matches and who is active, else None
authenticate(uname, password) ==
    LET found == {u \in ByUsername(uname) :
                     db[u].password = password /\ db[u].is_active}
    IN IF found = {} THEN NoUser ELSE CHOOSE u \in found : TRUE

\* a reset that only clears a counter that reached the lockout threshold
ResetOnSuccess_OnlyWhenLocked(acct) ==
    IF acct.failed_login_attempts >= LOCKOUT_THRESHOLD
    THEN [acct EXCEPT !.failed_login_attempts = 0, !.last_failed_login = None]
    ELSE acct

\* lines 106-110
ResetOnSuccess(acct) ==
    IF acct.failed_login_attempts > 0
    THEN [acct EXCEPT !.failed_login_attempts = 0, !.last_failed_login = None]
    ELSE acct

\* lines 138-142: reached only with user = None, so the guard is never true
RecordFailure(user) ==
    IF user # NoUser
    THEN [db EXCEPT ![user].failed_login_attempts = @ + 1,
                    ![user].last_failed_login = now]
    ELSE db

\* Lecturer.objects.get(username=username), None for DoesNotExist
Target(uname) ==
    IF ByUsername(uname) = {} THEN NoUser
    ELSE CHOOSE u \in ByUsername(uname) : TRUE

\* the outcome of a login_view POST
LoginResult(ip, uname, password) ==
    LET rl == check_rate_limit(LoginKey(ip), NoUsername,
                               LOGIN_MAX_ATTEMPTS, LOGIN_WINDOW_MINUTES)
        target == Target(uname)
    IN IF rl.is_blocked THEN "rate_limited"
       ELSE IF target # NoUser /\ LockoutCheck(db[target]) = "NameError"
            THEN "NameError"
       ELSE IF target # NoUser /\ ~db[target].email_verified THEN "unverified"
       ELSE IF authenticate(uname, password) # NoUser THEN "success"
       ELSE "invalid"

login_view(ip, uname, password) ==
    LET result == LoginResult(ip, uname, password)
        target == Target(uname)
        user == IF result = "success" THEN authenticate(uname, password)
                ELSE NoUser
    IN /\ db' = IF result = "success"
                THEN [db EXCEPT ![user] = ResetOnSuccess(@)]
                ELSE IF result = "invalid" THEN RecordFailure(user)
                ELSE db
       /\ login_log' = IF result = "success"
                       THEN login_log \cup {<<user, "login">>}
                       ELSE IF result = "invalid" /\ user # NoUser
                            THEN login_log \cup {<<user, "failed">>}
                       ELSE login_log
       /\ sessions' = IF result = "success" THEN sessions \cup {user}
                      ELSE sessions
       /\ ledger' = ledger
       /\ last' = [NoLast EXCEPT
                     !.op = "login", !.user = target, !.ip = ip,
                     !.result = result,
                     !.prevFailed = IF target = NoUser THEN 0
                                    ELSE db[target].failed_login_attempts,
                     !.appended = BagCardinality(ledger') - BagCardinality(ledger),
                     !.matched = (target # NoUser
                                  /\ db[target].password = password)]
       /\ UNCHANGED <<now, ticks, next_token, aside>>

\* ------------------------------------------------------------ logout_view
logout_view(u) ==
    /\ u \in sessions
    /\ login_log' = login_log \cup {<<u, "logout">>}
    /\ sessions' = sessions \ {u}
    /\ last' = [NoLast EXCEPT !.op = "logout", !.user = u, !.result = "ok"]
    /\ UNCHANGED <<now, ticks, db, ledger, next_token, aside>>

\* ------------------------------------------------------- the login system
FiveFailures(ip) ==
    [r \in {[ip_address |-> RawIp(ip), username |-> NoUsername,
             timestamp |-> 0, successful |-> FALSE]} |-> LOGIN_MAX_ATTEMPTS]

InitGhost ==
    /\ streak = [u \in Users |-> NoStreak]
    /\ ipFails = [i \in Ips |-> NoStreak]
    /\ superseded = [u \in Users |-> {}]
    /\ consumed = [u \in Users |-> [change |-> FALSE, token |-> None]]
    /\ viaRegister = [u \in Users |-> "no"]
    /\ issued = {}

InitLogin ==
    /\ now = 0
    /\ ticks = 0
    /\ db \in {[u \in Users |-> IF u = 1 THEN a ELSE Blank] : a \in SeedAccounts}
    /\ ledger \in {EmptyBag, FiveFailures(1)}
    /\ sessions = {}
    /\ login_log = {}
    /\ next_token = 0
    /\ last = NoLast
    /\ InitGhost
    /\ InitAside

LoginNames == {<<"a", 0>>, <<"b", 0>>}
LoginPasswords == Passwords \cup {WrongPassword}

NextLogin ==
    \/ \E ip \in Ips, uname \in LoginNames, pw \in LoginPasswords :
          login_view(ip, uname, pw) /\ UNCHANGED ghost
    \/ \E u \in Users : logout_view(u) /\ UNCHANGED ghost
    \/ \E d \in {1, 15} : Tick(d) /\ UNCHANGED ghost

SpecLogin == InitLogin /\ [][NextLogin]_vars

\* C2: whenever login_view authenticates a user, that account's
\* failed_login_attempts is 0 right after the request, whatever it was before.
C2_SuccessResetsCounter ==
    (last.op = "login" /\ last.result = "success")
        => db[last.user].failed_login_attempts = 0

\* a login succeeded on an account whose counter was at the threshold or above
C2_Witness ==
    /\ last.op = "login"
    /\ last.result = "success"
    /\ last.prevFailed >= LOCKOUT_THRESHOLD
    /\ db[last.user].failed_login_attempts = 0

\* ------------------------------------- the login system, failures counted
\* consecutive failures counted inside one lockout window
Bump(s) ==
    IF s.n = 0 \/ now - s.first >= LOCKOUT_MINUTES
    THEN [n |-> 1, first |-> now]
    ELSE [n |-> Min(s.n + 1, LOCKOUT_THRESHOLD), first |-> s.first]

\* failures of the running window
Running(s) == IF s.n > 0 /\ now - s.first < LOCKOUT_MINUTES THEN s.n ELSE 0

LoginCounted(ip, uname, password) ==
    LET result == LoginResult(ip, uname, password)
        target == Target(uname)
    IN /\ login_view(ip, uname, password)
       /\ streak' = IF target = NoUser THEN streak
                    ELSE IF result = "success"
                         THEN [streak EXCEPT ![target] = NoStreak]
                    ELSE IF result = "invalid" /\ db[target].password # password
                         THEN [streak EXCEPT ![target] = Bump(@)]
                    ELSE streak
       /\ ipFails' = IF result = "invalid"
                     THEN [ipFails EXCEPT ![ip] = Bump(@)]
                     ELSE ipFails
       /\ UNCHANGED <<superseded, consumed, viaRegister, issued>>

NextLockout ==
    \/ \E ip \in Ips, uname \in LoginNames, pw \in LoginPasswords :
          LoginCounted(ip, uname, pw)
    \/ \E d \in {1, 15} : Tick(d) /\ UNCHANGED ghost

\* accounts whose counter nobody has touched yet
InitLockout ==
    /\ InitLogin
    /\ db[1].failed_login_attempts = 0
    /\ db[1].last_failed_login = None
    /\ ledger = EmptyBag

SpecLockout == InitLockout /\ [][NextLockout]_vars

\* C1: after 5 consecutive failed login_view attempts against an account
\* within 15 minutes, an attempt made while the lockout runs is rejected as
\* locked (no session, no password comparison), whatever password it carries.
C1_SixthAttemptLocked ==
    [][\A u \in Users :
          (Running(streak[u]) >= LOCKOUT_THRESHOLD
           /\ last'.op = "login" /\ last'.user = u /\ last' # last)
              => last'.result = "locked"]_vars

\* C4: every login_view POST that the rate limiter lets through appends one
\* LoginAttempt row, and after 5 failed attempts from one address within 15
\* minutes the next POST from that address is rejected as rate-limited.
C4_LoginFeedsRateLimiter ==
    [][(last'.op = "login" /\ last' # last)
          => /\ (last'.result # "rate_limited" => last'.appended = 1)
             /\ (Running(ipFails[last'.ip]) >= LOGIN_MAX_ATTEMPTS
                    => last'.result = "rate_limited")]_vars

\* ------------------------------------------------- the attempt ledger alone
\* log_login_attempt for a failed attempt, called as register calls it (with
\* the raw address)
LogFailure(ip, username) ==
    /\ BagCardinality(ledger) < MaxLedger
    /\ ledger' = log_login_attempt(ledger, RawIp(ip), username, FALSE)
    /\ last' = [NoLast EXCEPT !.op = "log", !.appended = 1]
    /\ UNCHANGED <<now, ticks, db, sessions, login_log, next_token, aside>>

\* the row log_login_attempt stores for a successful attempt at time 0
SuccessRow(ip) ==
    [ip_address |-> RawIp(ip), username |-> NoUsername,
     timestamp |-> 0, successful |-> TRUE]

\* the table is empty or holds one successful attempt
InitLedger ==
    /\ now = 0
    /\ ticks = 0
    /\ db = [u \in Users |-> Blank]
    /\ ledger \in {EmptyBag} \cup {SetToBag({SuccessRow(ip)}) : ip \in Ips}
    /\ sessions = {}
    /\ login_log = {}
    /\ next_token = 0
    /\ last = NoLast
    /\ InitGhost
    /\ InitAside

NextLedger ==
    \/ \E ip \in Ips : LogFailure(ip, NoUsername) /\ UNCHANGED ghost
    \/ Tick(LOGIN_WINDOW_MINUTES) /\ UNCHANGED ghost

SpecLedger == InitLedger /\ [][NextLedger]_vars

\* the keys a caller can pass: raw addresses and the prefixed key strings
RateKeys == {RawIp(ip) : ip \in Ips} \cup {LoginKey(1), RegisterKey(1)}

\* the failed rows of the key inside the window, counted with their copies
FailuresInWindow(key, window_minutes) ==
    BagCardinality(
        [r \in {x \in BagToSet(ledger) :
                   /\ x.ip_address = key
                   /\ x.successful = FALSE
                   /\ now - x.timestamp <= window_minutes} |-> ledger[r]])

\* C3: check_rate_limit without a username blocks exactly when the failed
\* rows of the key inside the window number at least max_attempts, and it
\* returns that number; successful rows and older rows are never counted.
C3_BlockedIffThreshold ==
    \A key \in RateKeys :
      \A m \in {RESEND_MAX_ATTEMPTS, LOGIN_MAX_ATTEMPTS} :
        \A w \in {LOGIN_WINDOW_MINUTES, HOUR_WINDOW_MINUTES} :
          LET r == check_rate_limit(key, NoUsername, m, w)
          IN /\ r.is_blocked = (FailuresInWindow(key, w) >= m)
             /\ r.total_attempts = FailuresInWindow(key, w)

\* five failures inside the 15-minute window block an address that also has
\* a failure older than the window, which is not counted
C3_Witness ==
    \E ip \in Ips :
       LET r == check_rate_limit(RawIp(ip), NoUsername,
                                 LOGIN_MAX_ATTEMPTS, LOGIN_WINDOW_MINUTES)
       IN /\ r.is_blocked
          /\ r.total_attempts = LOGIN_MAX_ATTEMPTS
          /\ \E x \in BagToSet(ledger) :
                /\ x.ip_address = RawIp(ip)
                /\ ~x.successful
                /\ x.timestamp < now - LOGIN_WINDOW_MINUTES

\* ------------------------------------------------- registration challenge
\* utils.generate_verification_token: 32 characters drawn with
\* secrets.choice.  The k-th token generated in a request is a fresh value
\* (two draws of 32 characters out of 62 are taken never to coincide).
generate_verification_token(k) == next_token + k

\* len(token)
TokenLength(token) == IF token = None THEN 0 ELSE TOKEN_LENGTH

\* a challenge store that keeps a token the account already holds
SetToken_KeepsOld(acct, token) ==
    IF acct.verification_token # None
    THEN [acct EXCEPT !.verification_token_created = now]
    ELSE [acct EXCEPT !.verification_token = token,
                      !.verification_token_created = now]

\* user.verification_token = <token>; user.verification_token_created = now
SetToken(acct, token) ==
    [acct EXCEPT !.verification_token = token,
                 !.verification_token_created = now]

\* utils.send_verification_email: the token and code are generated and saved
\* first; building or sending the mail may then fail (mail_ok = FALSE)
send_verification_email(lecturer, token, code, mail_ok) ==
    [lecturer |-> [SetToken(lecturer, token) EXCEPT
                      !.verification_code = code,
                      !.verification_code_created = now],
     sent |-> mail_ok]

\* the Python value handed to is_token_valid
AsLecturer(acct) == [kind |-> "Lecturer", obj |-> acct]
AsDatetime(t) ==
    IF t = None THEN [kind |-> "NoneType", t |-> None]
    ELSE [kind |-> "datetime", t |-> t]

\* utils.is_token_valid(lecturer): reads lecturer.verification_token_created,
\* which raises AttributeError on anything that is not a Lecturer
is_token_valid(lecturer) ==
    IF lecturer.kind # "Lecturer" THEN [raised |-> TRUE, value |-> FALSE]
    ELSE IF lecturer.obj.verification_token_created = None
         THEN [raised |-> FALSE, value |-> FALSE]
    ELSE [raised |-> FALSE,
          value |-> now < lecturer.obj.verification_token_created
                            + TOKEN_VALID_MINUTES]

\* ------------------------------------------------------------ verify_email
\* the outcome of verify_email(token)
VerifyResult(token) ==
    LET found == ByToken(token)
    IN IF found = {} THEN "notfound"                 \* Http404
       ELSE IF Cardinality(found) > 1 THEN "error"   \* MultipleObjectsReturned
       ELSE LET u == CHOOSE x \in found : TRUE
                v == is_token_valid(AsDatetime(db[u].verification_token_created))
            IN IF db[u].email_verified THEN "already_verified"
               ELSE IF v.raised THEN "error"         \* AttributeError
               ELSE IF ~v.value THEN "expired"
               ELSE "verified"

\* lines 205-209
MarkVerified(acct) ==
    [acct EXCEPT !.email_verified = TRUE, !.verification_token = None,
                 !.verification_token_created = None, !.is_active = TRUE]

\* the Lecturer table after verify_email(token)
VerifyDb(token, code) ==
    LET result == VerifyResult(token)
        u == CHOOSE x \in ByToken(token) : TRUE
    IN IF result = "verified" THEN [db EXCEPT ![u] = MarkVerified(@)]
       ELSE IF result = "expired"
            THEN [db EXCEPT ![u] =
                    send_verification_email(
                        SetToken(@, generate_verification_token(1)),
                        generate_verification_token(2), code, TRUE).lecturer]
       ELSE db

verify_email(token, code) ==
    LET result == VerifyResult(token)
        found == ByToken(token)
        u == IF Cardinality(found) = 1 THEN CHOOSE x \in found : TRUE
             ELSE NoUser
    IN /\ result = "expired" => next_token + 2 <= MaxTokens
       /\ db' = VerifyDb(token, code)
       /\ next_token' = IF result = "expired" THEN next_token + 2
                        ELSE next_token
       /\ login_log' = IF result = "verified"
                       THEN login_log \cup {<<u, "email_verified">>}
                       ELSE login_log
       /\ last' = [NoLast EXCEPT
                     !.op = "verify", !.user = u, !.result = result,
                     !.token = token,
                     !.matched = (u # NoUser /\ ~db[u].email_verified),
                     !.age = IF u = NoUser
                                \/ db[u].verification_token_created = None
                             THEN None
                             ELSE now - db[u].verification_token_created]
       /\ UNCHANGED <<now, ticks, ledger, sessions, aside>>

\* ---------------------------------------- resend_verification_email_view
\* ResendVerificationForm.clean_email, then the view
ResendResult(ip, email) ==
    LET found == ByEmail(email)
        rl == check_rate_limit(ResendKey(ip), NoUsername,
                               RESEND_MAX_ATTEMPTS, HOUR_WINDOW_MINUTES)
    IN IF Cardinality(found) > 1 THEN "error"        \* MultipleObjectsReturned
       ELSE IF found = {} THEN "generic"
       ELSE LET u == CHOOSE x \in found : TRUE
            IN IF db[u].email_verified THEN "form_invalid"
               ELSE IF rl.is_blocked THEN "rate_limited"
               ELSE "issue"

resend_verification_email_view(ip, email, code, mail_ok) ==
    LET result == ResendResult(ip, email)
        u == CHOOSE x \in ByEmail(email) : TRUE
        sent == send_verification_email(
                    SetToken(db[u], generate_verification_token(1)),
                    generate_verification_token(2), code, mail_ok)
    IN /\ result = "issue" => next_token + 2 <= MaxTokens
       /\ db' = IF result = "issue" THEN [db EXCEPT ![u] = sent.lecturer]
                ELSE db
       /\ next_token' = IF result = "issue" THEN next_token + 2
                        ELSE next_token
       /\ last' = [NoLast EXCEPT
                     !.op = "resend", !.ip = ip,
                     !.user = IF result \in {"issue", "form_invalid",
                                             "rate_limited"}
                              THEN u ELSE NoUser,
                     !.result = IF result # "issue" THEN result
                                ELSE IF sent.sent THEN "resent"
                                ELSE "send_failed"]
       /\ UNCHANGED <<now, ticks, ledger, sessions, login_log, aside>>

\* ---------------------------------------------------------------- register
\* email.split('@')[0]
LocalPart(email) == email[1]

RECURSIVE UniqueUsername(_, _)
\* LecturerRegistrationForm.save: base, then base1, base2, ... until free
UniqueUsername(base, counter) ==
    IF ByUsername(<<base, counter>>) = {} THEN <<base, counter>>
    ELSE UniqueUsername(base, counter + 1)

\* the primary key the new row gets
NewPk == CHOOSE u \in Users : ~db[u].exists /\ \A v \in Users : v < u => db[v].exists

\* lines 340-345 with the form's save(commit=False)
NewAccount(email, password) ==
    SetToken([Blank EXCEPT !.exists = TRUE,
                           !.username = UniqueUsername(LocalPart(email), 0),
                           !.email = email, !.password = password,
                           !.is_active = FALSE],
             generate_verification_token(1))

RegisterResult(ip, valid, mail_ok) ==
    LET rl == check_rate_limit(RegisterKey(ip), NoUsername,
                               REGISTER_MAX_ATTEMPTS, HOUR_WINDOW_MINUTES)
    IN IF ~valid THEN "form_invalid"
       ELSE IF rl.is_blocked THEN "rate_limited"
       ELSE IF mail_ok THEN "registered"
       ELSE "registered_unsent"

register(ip, valid, email, password, post_username, code, mail_ok) ==
    LET result == RegisterResult(ip, valid, mail_ok)
        created == result \in {"registered", "registered_unsent"}
        sent == send_verification_email(NewAccount(email, password),
                    generate_verification_token(2), code, mail_ok)
        \* lines 361-362: activate the account anyway
        user == IF sent.sent THEN sent.lecturer
                ELSE [sent.lecturer EXCEPT !.is_active = TRUE]
    IN /\ created => /\ \E u \in Users : ~db[u].exists
                     /\ next_token + 2 <= MaxTokens
       /\ result # "rate_limited" => BagCardinality(ledger) < MaxLedger
       /\ db' = IF created THEN [db EXCEPT ![NewPk] = user] ELSE db
       /\ next_token' = IF created THEN next_token + 2 ELSE next_token
       /\ ledger' = IF created
                    THEN log_login_attempt(ledger, RawIp(ip),
                                           user.username, TRUE)
                    ELSE IF result = "form_invalid"
                         THEN log_login_attempt(ledger, RawIp(ip),
                                                post_username, FALSE)
                    ELSE ledger
       /\ sessions' = IF result = "registered_unsent"
                      THEN sessions \cup {NewPk} ELSE sessions
       /\ last' = [NoLast EXCEPT
                     !.op = "register", !.ip = ip, !.result = result,
                     !.user = IF created THEN NewPk ELSE NoUser,
                     !.appended = BagCardinality(ledger')
                                  - BagCardinality(ledger)]
       /\ UNCHANGED <<now, ticks, login_log, aside>>

\* ------------------------------------------- the registration flow, tracked
\* superseded: the tokens an account held (or was given inside the request)
\* before a newer one was stored; viaRegister: how register created the row
RegisterTracked(ip, valid, email, password, post_username, code, mail_ok) ==
    LET result == RegisterResult(ip, valid, mail_ok)
        created == result \in {"registered", "registered_unsent"}
    IN /\ register(ip, valid, email, password, post_username, code, mail_ok)
       /\ viaRegister' = IF created
                         THEN [viaRegister EXCEPT ![NewPk] =
                                  IF mail_ok THEN "sent" ELSE "unsent"]
                         ELSE viaRegister
       /\ superseded' = IF created
                        THEN [superseded EXCEPT ![NewPk] =
                                 {generate_verification_token(1)}]
                        ELSE superseded
       /\ UNCHANGED <<streak, ipFails, consumed, issued>>

Held(u) == {db[u].verification_token} \ {None}

ResendTracked(ip, email, code, mail_ok) ==
    LET result == ResendResult(ip, email)
        u == CHOOSE x \in ByEmail(email) : TRUE
    IN /\ resend_verification_email_view(ip, email, code, mail_ok)
       /\ superseded' = IF result = "issue"
                        THEN [superseded EXCEPT ![u] =
                                 @ \cup Held(u)
                                   \cup {generate_verification_token(1)}]
                        ELSE superseded
       /\ UNCHANGED <<streak, ipFails, consumed, viaRegister, issued>>

VerifyTracked(token, code) ==
    LET result == VerifyResult(token)
        u == CHOOSE x \in ByToken(token) : TRUE
    IN /\ verify_email(token, code)
       /\ superseded' = IF result = "expired"
                        THEN [superseded EXCEPT ![u] =
                                 @ \cup Held(u)
                                   \cup {generate_verification_token(1)}]
                        ELSE superseded
       /\ consumed' = IF result = "verified"
                      THEN [consumed EXCEPT ![u].token = token]
                      ELSE consumed
       /\ UNCHANGED <<streak, ipFails, viaRegister, issued>>

InitEmpty ==
    /\ now = 0
    /\ ticks = 0
    /\ db = [u \in Users |-> Blank]
    /\ ledger = EmptyBag
    /\ sessions = {}
    /\ login_log = {}
    /\ next_token = 0
    /\ last = NoLast
    /\ InitGhost
    /\ InitAside

Tokens == 1..MaxTokens

\* the address and the 6-digit code play no part in the token's life: one
\* of each is drawn here
NextVerify ==
    \/ \E email \in Emails, pw \in Passwords, mail_ok \in BOOLEAN :
          RegisterTracked(1, TRUE, email, pw, NoUsername, 1, mail_ok)
    \/ \E email \in Emails, mail_ok \in BOOLEAN :
          ResendTracked(1, email, 1, mail_ok)
    \/ \E token \in Tokens : VerifyTracked(token, 1)
    \/ \E d \in {1, TOKEN_VALID_MINUTES} : Tick(d) /\ UNCHANGED ghost

SpecVerify == InitEmpty /\ [][NextVerify]_vars

\* C5: verify_email with a token that matches an unverified account inside
\* its 24-hour window sets email_verified and is_active and clears
\* verification_token and verification_token_created.
C5_VerifyEmailVerifies ==
    (/\ last.op = "verify"
     /\ last.matched
     /\ last.age # None
     /\ last.age < TOKEN_VALID_MINUTES)
        => /\ last.result = "verified"
           /\ db[last.user].email_verified
           /\ db[last.user].is_active
           /\ db[last.user].verification_token = None
           /\ db[last.user].verification_token_created = None

\* C8: once a new registration challenge is stored for an account,
\* verify_email with any token the account held before answers not found
\* and leaves the table as it is.
C8_OldTokenNotFound ==
    \A u \in Users :
       \A t \in superseded[u] :
          /\ VerifyResult(t) = "notfound"
          /\ VerifyDb(t, 1) = db

\* a resend replaced the token of a registered account, and verify_email was
\* then tried with the token the account held before
C8_Witness ==
    \E u \in Users :
       /\ viaRegister[u] # "no"
       /\ Cardinality(superseded[u]) >= 3
       /\ last.op = "verify"
       /\ last.token \in superseded[u]
       /\ last.result = "notfound"
       /\ ~db[u].email_verified

\* C10: an account created by register is inactive until its e-mail is
\* verified: is_active implies email_verified.
C10_InactiveUntilVerified ==
    \A u \in Users :
       (viaRegister[u] # "no" /\ db[u].is_active) => db[u].email_verified

\* ---------------------------------------------------------- e-mail change
\* Lecturer._generate_verification_token: the body is "pass", so it
\* returns None
_generate_verification_token(acct) == None

\* utils.send_email_change_verification: refuses without a pending change
\* or without a token, else sends (mail_ok) or reports the failure
send_email_change_verification(lecturer, mail_ok) ==
    IF lecturer.new_email = NoEmail \/ lecturer.email_change_token = None
    THEN FALSE
    ELSE mail_ok

\* lines 43-52 of models.py: the challenge initiate_email_change stores.
\* email_verification_code and its time are no model fields: they live on
\* the instance only.
StoreEmailChange(acct, new_email, code) ==
    [acct EXCEPT !.new_email = new_email,
                 !.email_change_token = _generate_verification_token(acct),
                 !.email_change_token_created = now,
                 !.email_verification_code = code,
                 !.email_verification_code_created = now]

InitiateResult(u, new_email, has_request, code, mail_ok) ==
    IF ByEmail(new_email) \ {u} # {} THEN "in_use"
    ELSE IF has_request
            /\ ~send_email_change_verification(
                   StoreEmailChange(db[u], new_email, code), mail_ok)
         THEN "send_failed"
    ELSE "initiated"

initiate_email_change(u, new_email, has_request, code, mail_ok) ==
    LET result == InitiateResult(u, new_email, has_request, code, mail_ok)
    IN /\ db[u].exists
       /\ db' = IF result = "in_use" THEN db
                ELSE [db EXCEPT ![u] = StoreEmailChange(@, new_email, code)]
       /\ last' = [NoLast EXCEPT !.op = "initiate", !.user = u,
                                 !.result = result]
       /\ UNCHANGED <<now, ticks, ledger, sessions, login_log, next_token,
                      aside>>

\* a clearing that leaves the staged address and the code in place
_clear_email_change_data_KeepsChallenge(acct) ==
    [acct EXCEPT !.email_change_token = None,
                 !.email_change_token_created = None]

\* Lecturer._clear_email_change_data
_clear_email_change_data(acct) ==
    [acct EXCEPT !.new_email = NoEmail,
                 !.email_change_token = None,
                 !.email_change_token_created = None,
                 !.email_verification_code = None,
                 !.email_verification_code_created = None]

\* the outcome of confirm_email_change(verification_code) on the instance a;
\* None: by token
ConfirmOutcome(a, verification_code) ==
       IF a.new_email = NoEmail
          \/ (a.email_change_token = None /\ verification_code = None)
       THEN "no_pending"
       ELSE IF verification_code # None
       THEN IF a.email_verification_code = Absent THEN "AttributeError"
            ELSE IF a.email_verification_code = None
                    \/ a.email_verification_code # verification_code
                 THEN "invalid_code"
            ELSE IF now - a.email_verification_code_created
                       > EMAIL_CHANGE_MINUTES
                 THEN "expired"
            ELSE "changed"
       ELSE IF a.email_change_token = None THEN "invalid_link"
            ELSE IF now - a.email_change_token_created > EMAIL_CHANGE_MINUTES
                 THEN "expired"
            ELSE "changed"

\* the same for the instance the sequential flow keeps for account u
ConfirmResult(u, verification_code) == ConfirmOutcome(db[u], verification_code)

\* the account after confirm_email_change(verification_code)
ConfirmAccount(u, verification_code) ==
    LET result == ConfirmResult(u, verification_code)
    IN IF result = "expired" THEN _clear_email_change_data(db[u])
       ELSE IF result = "changed"
            THEN _clear_email_change_data(
                     [db[u] EXCEPT !.email = db[u].new_email])
       ELSE db[u]

confirm_email_change(u, verification_code) ==
    /\ db[u].exists
    /\ db' = [db EXCEPT ![u] = ConfirmAccount(u, verification_code)]
    /\ last' = [NoLast EXCEPT
                  !.op = "confirm", !.user = u,
                  !.result = ConfirmResult(u, verification_code),
                  !.token = verification_code,
                  !.matched = (db[u].new_email # NoEmail
                               /\ verification_code
                                    = db[u].email_verification_code),
                  !.age = IF db[u].email_change_token_created = None
                          THEN None
                          ELSE now - db[u].email_change_token_created]
    /\ UNCHANGED <<now, ticks, ledger, sessions, login_log, next_token, aside>>

\* a later request loads the row again: the attributes that are no model
\* fields are gone from the new instance
Reload(u) ==
    /\ db[u].exists
    /\ db[u].email_verification_code # Absent
    /\ db' = [db EXCEPT ![u].email_verification_code = Absent,
                        ![u].email_verification_code_created = Absent]
    /\ last' = [NoLast EXCEPT !.op = "reload", !.user = u]
    /\ UNCHANGED <<now, ticks, ledger, sessions, login_log, next_token, aside>>

\* ------------------------------------------ the e-mail change flow, tracked
\* consumed[u].change: the challenge u holds now was redeemed
InitiateTracked(u, new_email, has_request, code, mail_ok) ==
    /\ initiate_email_change(u, new_email, has_request, code, mail_ok)
    /\ consumed' =
          IF InitiateResult(u, new_email, has_request, code, mail_ok) = "in_use"
          THEN consumed
          ELSE [consumed EXCEPT ![u].change = FALSE]
    /\ UNCHANGED <<streak, ipFails, superseded, viaRegister, issued>>

ConfirmTracked(u, verification_code) ==
    /\ confirm_email_change(u, verification_code)
    /\ consumed' = IF ConfirmResult(u, verification_code) = "changed"
                   THEN [consumed EXCEPT ![u].change = TRUE]
                   ELSE consumed
    /\ UNCHANGED <<streak, ipFails, superseded, viaRegister, issued>>

\* a verified, active account with address a@x or b@x
Member(local) ==
    [Blank EXCEPT !.exists = TRUE, !.username = <<local, 0>>,
                  !.email = <<local, "x">>, !.password = "pw",
                  !.is_active = TRUE, !.email_verified = TRUE]

InitEmail ==
    /\ now = 0
    /\ ticks = 0
    /\ db \in {[u \in Users |-> IF u = 1 THEN Member("a")
                                ELSE IF u = 2 THEN second ELSE Blank] :
                  second \in {Blank, Member("b")}}
    /\ ledger = EmptyBag
    /\ sessions = {}
    /\ login_log = {}
    /\ next_token = 0
    /\ last = NoLast
    /\ InitGhost
    /\ InitAside

ChangeEmails == {<<"b", "x">>, <<"c", "x">>}

\* what a caller can pass as verification_code: None (by token), a code
\* that was drawn, or one that never is
WrongCode == MaxCodes + 1
CodeInputs == Codes \cup {None, WrongCode}

NextEmail ==
    \/ \E u \in Users, new_email \in ChangeEmails, has_request \in BOOLEAN,
          code \in Codes :
          InitiateTracked(u, new_email, has_request, code, TRUE)
    \/ \E u \in Users, code \in CodeInputs : ConfirmTracked(u, code)
    \/ \E u \in Users : Reload(u) /\ UNCHANGED ghost
    \/ \E d \in {1, EMAIL_CHANGE_MINUTES} : Tick(d) /\ UNCHANGED ghost

SpecEmail == InitEmail /\ [][NextEmail]_vars

\* C6: once a challenge has been redeemed (verify_email for a registration
\* token, confirm_email_change for an e-mail change), every later redemption
\* attempt with it fails and changes no field of the account.
C6_RedeemedOnce ==
    \A u \in Users :
       /\ consumed[u].change =>
             \A c \in CodeInputs :
                /\ ConfirmResult(u, c) \in {"no_pending", "invalid_code",
                                            "invalid_link", "AttributeError"}
                /\ ConfirmAccount(u, c) = db[u]
       /\ consumed[u].token # None =>
             /\ VerifyResult(consumed[u].token)
                   \in {"notfound", "already_verified"}
             /\ VerifyDb(consumed[u].token, 1) = db

\* an e-mail change was redeemed, and a second attempt was then refused
C6_Witness ==
    \E u \in Users :
       /\ consumed[u].change
       /\ db[u].email # <<"a", "x">>
       /\ db[u].email # <<"b", "x">>
       /\ last.op = "confirm"
       /\ last.user = u
       /\ last.token # None
       /\ last.result = "no_pending"

\* C9: after initiate_email_change has stored a challenge the account holds
\* a token of at least 32 characters, and confirm_email_change by token
\* within 15 minutes sets email to new_email and clears the challenge.
C9_TokenIssuedAndRedeemable ==
    \A u \in Users :
       (/\ db[u].new_email # NoEmail
        /\ db[u].email_change_token_created # None
        /\ now - db[u].email_change_token_created <= EMAIL_CHANGE_MINUTES)
          => /\ db[u].email_change_token # None
             /\ TokenLength(db[u].email_change_token) >= TOKEN_LENGTH
             /\ ConfirmResult(u, None) = "changed"
             /\ ConfirmAccount(u, None).email = db[u].new_email
             /\ ConfirmAccount(u, None).new_email = NoEmail
             /\ ConfirmAccount(u, None).email_change_token = None
             /\ ConfirmAccount(u, None).email_change_token_created = None

\* C7: redeeming a challenge older than its window (24 hours for a
\* registration token, 15 minutes for an e-mail change token or code) is
\* rejected as expired and applies no effect, even though the token or code
\* supplied is the stored one.
C7_ExpiredChallengeRejected ==
    \A u \in Users :
       /\ (/\ db[u].exists
           /\ ~db[u].email_verified
           /\ db[u].verification_token # None
           /\ db[u].verification_token_created # None
           /\ now - db[u].verification_token_created > TOKEN_VALID_MINUTES)
             => /\ VerifyResult(db[u].verification_token) = "expired"
                /\ ~VerifyDb(db[u].verification_token, 1)[u].email_verified
       /\ (/\ db[u].new_email # NoEmail
           /\ db[u].email_change_token_created # None
           /\ now - db[u].email_change_token_created > EMAIL_CHANGE_MINUTES)
             => /\ ConfirmResult(u, None) = "expired"
                /\ ConfirmAccount(u, None).email = db[u].email
       /\ (/\ db[u].new_email # NoEmail
           /\ db[u].email_verification_code \notin {Absent, None}
           /\ now - db[u].email_verification_code_created
                 > EMAIL_CHANGE_MINUTES)
             => /\ ConfirmResult(u, db[u].email_verification_code) = "expired"
                /\ ConfirmAccount(u, db[u].email_verification_code).email
                      = db[u].email

\* ------------------------------------------------------------ mail failures
\* what building and sending one mail does: it goes through, or something
\* raises an exception whose str() is text (one string per character)
MailOutcomes ==
    {[raised |-> FALSE, text |-> <<>>],
     [raised |-> TRUE, text |-> <<>>],
     [raised |-> TRUE, text |-> <<"s", "m", "t", "p">>]}

\* the error message None of a successful send_verification_email
NoMessage == <<"None">>

\* "Failed to send verification email: " (utils.py line 109)
VerificationPrefix ==
    <<"F", "a", "i", "l", "e", "d", " ", "t", "o", " ", "s", "e", "n", "d",
      " ", "v", "e", "r", "i", "f", "i", "c", "a", "t", "i", "o", "n", " ",
      "e", "m", "a", "i", "l", ":", " ">>

\* 'Failed to send verification email.' (utils.py line 235)
GenericMessage ==
    <<"F", "a", "i", "l", "e", "d", " ", "t", "o", " ", "s", "e", "n", "d",
      " ", "v", "e", "r", "i", "f", "i", "c", "a", "t", "i", "o", "n", " ",
      "e", "m", "a", "i", "l", ".">>

\* 'No pending email change found.' (utils.py line 188)
NoPendingMessage ==
    <<"N", "o", " ", "p", "e", "n", "d", "i", "n", "g", " ", "e", "m", "a",
      "i", "l", " ", "c", "h", "a", "n", "g", "e", " ", "f", "o", "u", "n",
      "d", ".">>

\* what send_verification_email returns: the whole body is inside the try,
\* and the handler builds the message by formatting str(e) into a text
SendVerificationReturn(mail) ==
    IF mail.raised
    THEN [raised |-> "none", success |-> FALSE,
          error_msg |-> VerificationPrefix \o mail.text]
    ELSE [raised |-> "none", success |-> TRUE, error_msg |-> NoMessage]

\* what send_email_change_verification returns or raises: the handler picks
\* str(e) under DEBUG and the generic text otherwise, and returns
\* error_msg[0], which raises IndexError on an empty text
SendEmailChangeReturn(lecturer, debug, mail) ==
    IF ~send_email_change_verification(lecturer, TRUE)
    THEN [raised |-> "none", success |-> FALSE,
          error_msg |-> NoPendingMessage]
    ELSE IF send_email_change_verification(lecturer, ~mail.raised)
    THEN [raised |-> "none", success |-> TRUE, error_msg |-> <<>>]
    ELSE LET error_msg == IF debug THEN mail.text ELSE GenericMessage
         IN IF Len(error_msg) = 0
            THEN [raised |-> "IndexError", success |-> FALSE,
                  error_msg |-> <<>>]
            ELSE [raised |-> "none", success |-> FALSE,
                  error_msg |-> <<error_msg[1]>>]

\* the outcome of a call, as the caller sees it
CallResult(ret) ==
    IF ret.raised # "none" THEN ret.raised
    ELSE IF ret.success THEN "sent"
    ELSE "send_failed"

\* a call of send_email_change_verification(request, lecturer)
SendEmailChangeCall(u, debug, mail) ==
    /\ db[u].exists
    /\ last' = [NoLast EXCEPT
                  !.op = "send_change", !.user = u,
                  !.result = CallResult(
                                 SendEmailChangeReturn(db[u], debug, mail))]
    /\ UNCHANGED <<now, ticks, db, ledger, sessions, login_log, next_token,
                   aside>>

\* a verified account with an e-mail change staged and a token stored
Changing(local, token) ==
    [Member(local) EXCEPT !.new_email = <<"c", "x">>,
                          !.email_change_token = token,
                          !.email_change_token_created = 0]

\* one account, with or without a token for its staged e-mail change
InitMail ==
    /\ now = 0
    /\ ticks = 0
    /\ db \in {[u \in Users |-> IF u = 1 THEN first ELSE Blank] :
                  first \in {Member("a"), Changing("a", None),
                             Changing("a", MaxTokens)}}
    /\ ledger = EmptyBag
    /\ sessions = {}
    /\ login_log = {}
    /\ next_token = 0
    /\ last = NoLast
    /\ InitGhost
    /\ InitAside

NextMail ==
    \/ \E u \in Users, debug \in BOOLEAN, mail \in MailOutcomes :
          SendEmailChangeCall(u, debug, mail) /\ UNCHANGED ghost
    \/ \E valid \in BOOLEAN, email \in Emails, mail \in MailOutcomes :
          RegisterTracked(1, valid, email, "pw", NoUsername, 1,
                          SendVerificationReturn(mail).success)
    \/ Tick(1) /\ UNCHANGED ghost

SpecMail == InitMail /\ [][NextMail]_vars

\* C11: send_verification_email and send_email_change_verification never
\* raise: whatever exception building or sending the mail throws, an empty
\* message included, they return (False, error_message); and a register
\* whose mail failed leaves the new account row stored.
C11_MailFailureIsSoft ==
    /\ \A mail \in MailOutcomes :
          mail.raised =>
             /\ SendVerificationReturn(mail).raised = "none"
             /\ ~SendVerificationReturn(mail).success
             /\ SendVerificationReturn(mail).error_msg
                   = VerificationPrefix \o mail.text
    /\ last.op = "send_change" => last.result \in {"sent", "send_failed"}
    /\ (last.op = "register" /\ last.result = "registered_unsent")
          => db[last.user].exists

\* ----------------------------------------------- what a response gives away
\* the message resend_verification_email_view answers with (the redirect
\* goes to the login page in all three cases that pass the form)
ResendResponse(ip, email, mail_ok) ==
    IF ResendResult(ip, email) # "issue" THEN ResendResult(ip, email)
    ELSE IF mail_ok THEN "resent"
    ELSE "send_failed"

\* C12: resend_verification_email_view answers a request for the address of
\* a registered, unverified account exactly as it answers a request for an
\* address that belongs to no account.
C12_ResendDoesNotRevealAccount ==
    (/\ last.op = "resend"
     /\ last.user # NoUser
     /\ ~db[last.user].email_verified)
       => \A email \in Emails, mail_ok \in BOOLEAN :
             ByEmail(email) = {}
                => ResendResponse(last.ip, email, mail_ok) = last.result

\* C13: login_view answers an existing username submitted with a wrong
\* password exactly as it answers a username that belongs to no account,
\* whatever the state of the account (verified or not, any counter).
C13_LoginDoesNotRevealUsername ==
    (/\ last.op = "login"
     /\ last.user # NoUser
     /\ ~last.matched)
       => \A uname \in LoginNames :
             ByUsername(uname) = {}
                => LoginResult(last.ip, uname, WrongPassword) = last.result

\* --------------------------------------------- the ledger, with usernames
\* the usernames a POST can carry into log_login_attempt and check_rate_limit
AttemptNames == {NoUsername, <<"a", 0>>}

NextAttempts ==
    \/ \E ip \in Ips, username \in AttemptNames :
          LogFailure(ip, username) /\ UNCHANGED ghost
    \/ \E d \in {1, LOGIN_WINDOW_MINUTES} : Tick(d) /\ UNCHANGED ghost

SpecAttempts == InitLedger /\ [][NextAttempts]_vars

\* the failed rows inside the window whose ip_address is the key
IpFailures(key, window_minutes) ==
    {x \in BagToSet(ledger) : /\ x.ip_address = key
                              /\ ~x.successful
                              /\ now - x.timestamp <= window_minutes}

\* the failed rows inside the window whose username is the name
NameFailures(username, window_minutes) ==
    {x \in BagToSet(ledger) : /\ x.username = username
                              /\ ~x.successful
                              /\ now - x.timestamp <= window_minutes}

\* C14: when check_rate_limit counts enough failures to block but finds no
\* oldest qualifying attempt to compute the reset time from, it answers
\* blocked = false.
C14_FailsOpenWithoutOldest ==
    \A ip \in Ips, username \in AttemptNames :
      \A m \in {RESEND_MAX_ATTEMPTS, LOGIN_MAX_ATTEMPTS} :
        \A w \in {LOGIN_WINDOW_MINUTES, HOUR_WINDOW_MINUTES} :
          LET r == check_rate_limit(RawIp(ip), username, m, w)
          IN (r.total_attempts >= m /\ IpFailures(RawIp(ip), w) = {})
                => ~r.is_blocked

\* the reset times the blocked identities of a call call for: oldest failed
\* row inside the window + window - now, for the address if its count
\* reached the threshold and for the username if its count did
ResetTimes(ip, username, m, w) ==
    LET count(S) == BagCardinality([x \in S |-> ledger[x]])
        oldest(S) == CHOOSE t \in {x.timestamp : x \in S} :
                        \A x \in S : t <= x.timestamp
        byIp == IpFailures(RawIp(ip), w)
        byName == IF username = NoUsername THEN {}
                  ELSE NameFailures(username, w)
    IN {oldest(S) + w - now : S \in {T \in {byIp, byName} : count(T) >= m}}

\* C15: whenever check_rate_limit answers blocked = true, time_until_reset
\* is (timestamp of the oldest failed attempt inside the window of the
\* identity that reached the threshold) + window - now, also when a username
\* is supplied and it is the username's count that blocks.
C15_ResetTimeFromOldest ==
    \A ip \in Ips, username \in AttemptNames :
      \A m \in {RESEND_MAX_ATTEMPTS, LOGIN_MAX_ATTEMPTS} :
        \A w \in {LOGIN_WINDOW_MINUTES, HOUR_WINDOW_MINUTES} :
          LET r == check_rate_limit(RawIp(ip), username, m, w)
          IN r.is_blocked
                => r.time_until_reset \in ResetTimes(ip, username, m, w)

\* ------------------------------------------------ the purposes side by side
\* is_blocked of the check login_view makes for the address
LoginBlocked(ip) ==
    check_rate_limit(LoginKey(ip), NoUsername,
                     LOGIN_MAX_ATTEMPTS, LOGIN_WINDOW_MINUTES).is_blocked

\* is_blocked of the check resend_verification_email_view makes
ResendBlocked(ip) ==
    check_rate_limit(ResendKey(ip), NoUsername,
                     RESEND_MAX_ATTEMPTS, HOUR_WINDOW_MINUTES).is_blocked

\* one account that has not verified its address yet
InitPurposes ==
    /\ now = 0
    /\ ticks = 0
    /\ db = [u \in Users |->
                IF u = 1
                THEN [Blank EXCEPT !.exists = TRUE, !.username = <<"a", 0>>,
                                   !.email = <<"a", "x">>, !.password = "pw"]
                ELSE Blank]
    /\ ledger = EmptyBag
    /\ sessions = {}
    /\ login_log = {}
    /\ next_token = 0
    /\ last = NoLast
    /\ InitGhost
    /\ InitAside

\* registrations from address 1 that fail, logins and resends from any address
NextPurposes ==
    \/ RegisterTracked(1, FALSE, <<"a", "x">>, "pw", NoUsername, 1, TRUE)
    \/ \E ip \in Ips :
          login_view(ip, <<"b", 0>>, WrongPassword) /\ UNCHANGED ghost
    \/ \E ip \in Ips : ResendTracked(ip, <<"a", "x">>, 1, TRUE)
    \/ Tick(LOGIN_WINDOW_MINUTES) /\ UNCHANGED ghost

SpecPurposes == InitPurposes /\ [][NextPurposes]_vars

\* C16: the attempts one flow records never change the blocked result of
\* the check another flow makes for the same address: a register request,
\* failed or not, leaves the login check and the resend check of every
\* address as they were.
C16_PurposesDoNotInterfere ==
    [][(last'.op = "register" /\ last' # last)
          => \A ip \in Ips :
                /\ LoginBlocked(ip)' = LoginBlocked(ip)
                /\ ResendBlocked(ip)' = ResendBlocked(ip)]_vars

\* five failed registrations from an address are on record inside the
\* window, and a login from that address has just passed the rate limiter
C16_Witness ==
    /\ last.op = "login"
    /\ last.result # "rate_limited"
    /\ FailuresInWindow(RawIp(last.ip), LOGIN_WINDOW_MINUTES)
          >= LOGIN_MAX_ATTEMPTS

\* ------------------------------------------- redemptions running at once
\* a Lecturer instance as a request loads it: the attributes that are no
\* model fields are missing
Fresh(row) ==
    [row EXCEPT !.email_verification_code = Absent,
                !.email_verification_code_created = Absent]

\* save(): every model field of the instance is written to the row
Stored(inst) == Fresh(inst)

\* lines 184-192 of verify_email on the instance that was read
VerifyOutcome(inst) ==
    LET v == is_token_valid(AsDatetime(inst.verification_token_created))
    IN IF inst.email_verified THEN "already_verified"
       ELSE IF v.raised THEN "error"
       ELSE IF ~v.value THEN "expired"
       ELSE "verified"

Finish(p, result) == [inflight EXCEPT ![p].pc = "done", ![p].result = result]

\* a request reads the account: request.user for confirm_email_change
ConfirmRead(p, u, verification_code) ==
    /\ inflight[p].pc = "idle"
    /\ db[u].exists
    /\ inflight' = [inflight EXCEPT ![p] =
                      [Idle EXCEPT !.pc = "loaded", !.op = "confirm",
                                   !.user = u, !.arg = verification_code,
                                   !.inst = Fresh(db[u])]]
    /\ last' = [NoLast EXCEPT !.op = "read", !.user = u]
    /\ UNCHANGED <<now, ticks, db, ledger, sessions, login_log, next_token,
                   courses, attendances>>

\* lines 68-90 of confirm_email_change on the instance: the pending check,
\* the code or token check and the expiry check (an expired challenge is
\* cleared and saved here)
ConfirmCheck(p) ==
    LET r == inflight[p]
        outcome == ConfirmOutcome(r.inst, r.arg)
    IN /\ r.pc = "loaded"
       /\ r.op = "confirm"
       /\ inflight' = IF outcome = "changed"
                      THEN [inflight EXCEPT ![p].pc = "checked"]
                      ELSE Finish(p, outcome)
       /\ db' = IF outcome = "expired"
                THEN [db EXCEPT ![r.user] =
                        Stored(_clear_email_change_data(r.inst))]
                ELSE db
       /\ last' = [NoLast EXCEPT !.op = "check", !.user = r.user,
                                 !.result = outcome]
       /\ UNCHANGED <<now, ticks, ledger, sessions, login_log, next_token,
                      courses, attendances>>

\* lines 93-99: the e-mail is replaced, the challenge cleared, the instance
\* saved, and success reported
ConfirmSave(p) ==
    LET r == inflight[p]
    IN /\ r.pc = "checked"
       /\ r.op = "confirm"
       /\ db' = [db EXCEPT ![r.user] =
                   Stored(_clear_email_change_data(
                              [r.inst EXCEPT !.email = r.inst.new_email]))]
       /\ inflight' = Finish(p, "changed")
       /\ last' = [NoLast EXCEPT !.op = "confirm", !.user = r.user,
                                 !.result = "changed"]
       /\ UNCHANGED <<now, ticks, ledger, sessions, login_log, next_token,
                      courses, attendances>>

\* line 181 of verify_email: the account holding the token is read
VerifyRead(p, token) ==
    LET found == ByToken(token)
    IN /\ inflight[p].pc = "idle"
       /\ Cardinality(found) <= 1
       /\ inflight' =
             IF found = {}
             THEN [inflight EXCEPT ![p] =
                     [Idle EXCEPT !.pc = "done", !.op = "verify",
                                  !.arg = token, !.result = "notfound"]]
             ELSE [inflight EXCEPT ![p] =
                     [Idle EXCEPT !.pc = "loaded", !.op = "verify",
                                  !.user = CHOOSE u \in found : TRUE,
                                  !.arg = token,
                                  !.inst = Fresh(db[CHOOSE u \in found : TRUE])]]
       /\ last' = [NoLast EXCEPT !.op = "read", !.token = token]
       /\ UNCHANGED <<now, ticks, db, ledger, sessions, login_log, next_token,
                      courses, attendances>>

\* lines 184-226 on the instance that was read: the already-verified check
\* and the validity check, then either the token is replaced and saved
\* (expired) or the account is marked verified, saved, and success reported.
\* Nothing is read from the table between the check and the save.
VerifyCheck(p) ==
    LET r == inflight[p]
        outcome == VerifyOutcome(r.inst)
    IN /\ r.pc = "loaded"
       /\ r.op = "verify"
       /\ outcome = "expired" => next_token + 2 <= MaxTokens
       /\ inflight' = Finish(p, outcome)
       /\ db' = IF outcome = "expired"
                THEN [db EXCEPT ![r.user] =
                        Stored(send_verification_email(
                                   SetToken(r.inst,
                                            generate_verification_token(1)),
                                   generate_verification_token(2), 1,
                                   TRUE).lecturer)]
                ELSE IF outcome = "verified"
                     THEN [db EXCEPT ![r.user] = Stored(MarkVerified(r.inst))]
                ELSE db
       /\ next_token' = IF outcome = "expired" THEN next_token + 2
                        ELSE next_token
       /\ login_log' = IF outcome = "verified"
                       THEN login_log \cup {<<r.user, "email_verified">>}
                       ELSE login_log
       /\ last' = [NoLast EXCEPT !.op = "verify", !.user = r.user,
                                 !.result = outcome]
       /\ UNCHANGED <<now, ticks, ledger, sessions, courses, attendances>>

\* an account with an outstanding challenge: an e-mail change with a stored
\* token or without one, or a registration token not yet redeemed
Challenged ==
    {Fresh(Changing("a", MaxTokens)), Fresh(Changing("a", None)),
     SetToken([Blank EXCEPT !.exists = TRUE, !.username = <<"a", 0>>,
                            !.email = <<"a", "x">>, !.password = "pw"],
              MaxTokens)}

InitRace ==
    /\ now = 0
    /\ ticks = 0
    /\ db \in {[u \in Users |-> IF u = 1 THEN first ELSE Blank] :
                  first \in Challenged}
    /\ ledger = EmptyBag
    /\ sessions = {}
    /\ login_log = {}
    /\ next_token = 0
    /\ last = NoLast
    /\ InitGhost
    /\ InitAside

NextRace ==
    \/ \E p \in Procs, u \in Users, code \in CodeInputs :
          ConfirmRead(p, u, code) /\ UNCHANGED ghost
    \/ \E p \in Procs : ConfirmCheck(p) /\ UNCHANGED ghost
    \/ \E p \in Procs : ConfirmSave(p) /\ UNCHANGED ghost
    \/ \E p \in Procs : VerifyRead(p, MaxTokens) /\ UNCHANGED ghost
    \/ \E p \in Procs : VerifyCheck(p) /\ UNCHANGED ghost
    \/ \E d \in {1, EMAIL_CHANGE_MINUTES} : Tick(d) /\ UNCHANGED ghost

SpecRace == InitRace /\ [][NextRace]_vars

\* C17: of two redemption requests for the same outstanding challenge of one
\* account that run at the same time, at most one reports success.
C17_AtMostOneRedeems ==
    \A p, q \in Procs :
       (/\ p # q
        /\ inflight[p].op = inflight[q].op
        /\ inflight[p].user = inflight[q].user
        /\ inflight[p].result \in {"changed", "verified"})
          => inflight[q].result \notin {"changed", "verified"}

\* C18: once the 15 minutes of a locked account's lockout have elapsed, the
\* next login_view attempt is not rejected as locked: the counter is reset
\* to 0 at that check, and a correct password logs the user in.
C18_LockoutElapses ==
    [][\A u \in Users :
          (/\ db[u].failed_login_attempts >= LOCKOUT_THRESHOLD
           /\ db[u].last_failed_login # None
           /\ now - db[u].last_failed_login >= LOCKOUT_MINUTES
           /\ last'.op = "login" /\ last'.user = u /\ last' # last
           /\ last'.result # "rate_limited")
             => /\ last'.result \notin {"locked", "NameError"}
                /\ db'[u].failed_login_attempts = 0
                /\ (last'.matched /\ db[u].is_active /\ db[u].email_verified)
                      => (last'.result = "success" /\ u \in sessions')]_vars

\* ---------------------------------------------------------------- courses
\* the names bound in the namespace of views.py by its import statements
\* (lines 1-28 and 385); a name used by a view and missing here raises
\* NameError when the line that uses it runs
ViewsGlobals_WithMissingImports ==
    {"render", "redirect", "get_object_or_404", "login", "authenticate",
     "logout", "login_required", "messages", "LoginView", "reverse_lazy",
     "reverse", "JsonResponse", "Http404", "HttpResponse", "csrf_exempt",
     "timezone", "default_storage", "ContentFile", "get_random_string",
     "timedelta", "qrcode", "Lecturer", "Course", "Attendance", "LoginLog",
     "LoginAttempt", "LecturerRegistrationForm", "CourseForm",
     "QRCodeGenerationForm", "ResendVerificationForm", "EmailChangeForm",
     "send_verification_email", "check_rate_limit", "log_login_attempt",
     "is_token_valid", "generate_verification_token",
     "send_email_change_verification", "settings", "json", "os",
     "BytesIO", "File", "AttendanceForm"}

ViewsGlobals ==
    {"render", "redirect", "get_object_or_404", "login", "authenticate",
     "logout", "login_required", "messages", "LoginView", "reverse_lazy",
     "reverse", "JsonResponse", "Http404", "HttpResponse", "csrf_exempt",
     "timezone", "default_storage", "ContentFile", "get_random_string",
     "timedelta", "qrcode", "Lecturer", "Course", "Attendance", "LoginLog",
     "LoginAttempt", "LecturerRegistrationForm", "CourseForm",
     "QRCodeGenerationForm", "ResendVerificationForm", "EmailChangeForm",
     "send_verification_email", "check_rate_limit", "log_login_attempt",
     "is_token_valid", "generate_verification_token",
     "send_email_change_verification", "settings", "json", "os"}

\* the primary key the next Course row gets
NewCourseId ==
    CHOOSE c \in CourseIds :
       ~courses[c].exists /\ \A d \in CourseIds : d < c => courses[d].exists

\* a time of day is <<hour, minute, second>>; TimeField comparison
TimeBefore(s, t) ==
    \/ s[1] < t[1]
    \/ s[1] = t[1] /\ s[2] < t[2]
    \/ s[1] = t[1] /\ s[2] = t[2] /\ s[3] < t[3]

Days == {"Monday", "Tuesday", "Wednesday", "Thursday", "Friday", "Saturday",
         "Sunday"}

\* CourseForm.is_valid(): the four fields are required, day is one of the
\* choices, and clean() refuses an end time that is not after the start time
CourseFormValid(form) ==
    /\ form.title # <<>>
    /\ form.day \in Days
    /\ TimeBefore(form.start_time, form.end_time)

\* the course forms submitted: a title is a tuple of characters
Titles == {<<"n">>, <<"n", "\"">>}
CourseForms ==
    { [title |-> t, day |-> d, start_time |-> s, end_time |-> e] :
        t \in Titles, d \in {"Monday"},
        s \in {<<8, 0, 0>>}, e \in {<<8, 0, 0>>, <<9, 30, 0>>, <<9, 30, 30>>} }

\* add_course behind login_required: a valid form stores a course owned by
\* the requesting user
add_course(u, form) ==
    LET created == u \in sessions /\ CourseFormValid(form)
    IN /\ db[u].exists
       /\ created => \E c \in CourseIds : ~courses[c].exists
       /\ courses' = IF created
                     THEN [courses EXCEPT ![NewCourseId] =
                             [NoCourse EXCEPT !.exists = TRUE,
                                              !.lecturer = u,
                                              !.title = form.title,
                                              !.day = form.day,
                                              !.start_time = form.start_time,
                                              !.end_time = form.end_time]]
                     ELSE courses
       /\ last' = [NoLast EXCEPT
                     !.op = "add_course", !.user = u,
                     !.result = IF u \notin sessions THEN "302"
                                ELSE IF CourseFormValid(form) THEN "302"
                                ELSE "200",
                     !.course = IF created THEN NewCourseId ELSE 0]
       /\ UNCHANGED <<now, ticks, db, ledger, sessions, login_log, next_token,
                      inflight, attendances>>

\* f'qr_{course.id}_{now}.png' under qr_codes/, and the absolute URL of it
QrFile(c) == <<"qr_codes", c, now>>
QrUrl(file) == <<"http">> \o file

\* what can go wrong inside the try block with every name in place: nothing,
\* something before the image is stored on the course, or something after it
Faults == {"none", "before_store", "after_store"}

\* line 465 can run: BytesIO and File are names of the module
StoreReachable == {"BytesIO", "File"} \subseteq ViewsGlobals

\* course.qr_code.save(filename, file) saves the row with the image;
\* course.qr_code_url = ...; course.save() then saves it with the URL
StoreQr(course, file) ==
    [course EXCEPT !.qr_code = file, !.qr_code_url = QrUrl(file)]

\* the status generate_qr answers with
QrStatus(u, course_id, fault) ==
    IF u \notin sessions THEN "302"                  \* login_required
    ELSE IF course_id \notin CourseIds \/ ~courses[course_id].exists
         THEN "404"
    ELSE IF courses[course_id].lecturer # u THEN "403"
    ELSE IF ~StoreReachable THEN "500"               \* NameError, line 465
    ELSE IF fault # "none" THEN "500"
    ELSE "200"

\* the Course table after generate_qr
QrCourses(u, course_id, fault) ==
    LET status == QrStatus(u, course_id, fault)
    IN IF status = "200"
       THEN [courses EXCEPT ![course_id] = StoreQr(@, QrFile(course_id))]
       ELSE IF status = "500" /\ StoreReachable /\ fault = "after_store"
            THEN [courses EXCEPT ![course_id].qr_code = QrFile(course_id)]
       ELSE courses

\* the JSON body generate_qr answers with
QrBody(u, course_id, fault) ==
    LET status == QrStatus(u, course_id, fault)
    IN IF status = "200"
       THEN [NoBody EXCEPT
               !.success = "true",
               !.qr_code_url = QrCourses(u, course_id, fault)[course_id]
                                  .qr_code_url,
               !.message = "QR code generated successfully"]
       ELSE IF status = "404" THEN [NoBody EXCEPT !.error = "Course not found"]
       ELSE IF status = "403"
            THEN [NoBody EXCEPT !.error = "You do not have permission"]
       ELSE IF status = "500"
            THEN [NoBody EXCEPT
                    !.error = IF StoreReachable THEN "str(e)"
                              ELSE "name 'BytesIO' is not defined"]
       ELSE NoBody

\* ------------------------------------------------------------ QR payload
\* json.dumps of a string: quotes around it, '"' and '\' escaped
RECURSIVE JsonEscape(_)
JsonEscape(s) ==
    IF s = <<>> THEN <<>>
    ELSE (IF Head(s) \in {"\"", "\\"} THEN <<"\\", Head(s)>> ELSE <<Head(s)>>)
            \o JsonEscape(Tail(s))

JsonString(s) == <<"\"">> \o JsonEscape(s) \o <<"\"">>

\* a number printed with two digits, as %H, %M and isoformat print it
TwoDigits(n) == IF n < 10 THEN <<"0", ToString(n)>> ELSE <<ToString(n)>>

\* time.strftime('%H:%M'): hour and minute, the seconds are dropped
StrfHM(t) == TwoDigits(t[1]) \o <<":">> \o TwoDigits(t[2])

\* an isoformat that cuts the timestamp to its hour
Isoformat_HourOnly(t) == <<"T">> \o TwoDigits(t \div 60)

\* datetime.isoformat() of a timestamp counted in minutes: the hour and the
\* minute of it
Isoformat(t) ==
    <<"T">> \o TwoDigits(t \div 60) \o <<":">> \o TwoDigits(t % 60)

\* json.dumps(qr_data): the six keys in the order they were inserted
QrPayload(course_id, course, timestamp) ==
    <<"{">> \o JsonString(<<"course_id">>) \o <<":", ToString(course_id), ",">>
       \o JsonString(<<"title">>) \o <<":">> \o JsonString(course.title)
       \o <<",">>
       \o JsonString(<<"day">>) \o <<":">> \o JsonString(<<course.day>>)
       \o <<",">>
       \o JsonString(<<"start_time">>) \o <<":">>
       \o JsonString(StrfHM(course.start_time)) \o <<",">>
       \o JsonString(<<"end_time">>) \o <<":">>
       \o JsonString(StrfHM(course.end_time)) \o <<",">>
       \o JsonString(<<"timestamp">>) \o <<":">>
       \o JsonString(Isoformat(timestamp)) \o <<"}">>

NoPayload == <<>>

generate_qr(u, course_id, fault) ==
    LET owner == /\ u \in sessions
                 /\ course_id \in CourseIds
                 /\ courses[course_id].exists
                 /\ courses[course_id].lecturer = u
    IN /\ db[u].exists
       /\ courses' = QrCourses(u, course_id, fault)
       /\ last' = [NoLast EXCEPT
                     !.op = "generate_qr", !.user = u, !.course = course_id,
                     !.fault = fault,
                     !.result = QrStatus(u, course_id, fault),
                     !.body = QrBody(u, course_id, fault),
                     !.matched = owner,
                     !.payload = IF owner
                                 THEN QrPayload(course_id, courses[course_id],
                                                now)
                                 ELSE NoPayload]
       /\ UNCHANGED <<now, ticks, db, ledger, sessions, login_log, next_token,
                      inflight, attendances>>

\* two verified lecturers, nobody logged in, no course
InitQr ==
    /\ now = 0
    /\ ticks = 0
    /\ db = [u \in Users |-> IF u = 1 THEN Member("a")
                             ELSE IF u = 2 THEN Member("b") ELSE Blank]
    /\ ledger = EmptyBag
    /\ sessions = {}
    /\ login_log = {}
    /\ next_token = 0
    /\ last = NoLast
    /\ InitGhost
    /\ InitAside

\* the course ids a request can name: the keys, and one that has no row
RequestedCourses == 1..(MaxCourses + 1)

\* the forms of this scenario: one valid and one with end time = start time
QrForms == {form \in CourseForms : form.title = <<"n">>}

NextQr ==
    \/ \E uname \in LoginNames : login_view(1, uname, "pw") /\ UNCHANGED ghost
    \/ \E u \in Users, form \in QrForms : add_course(u, form) /\ UNCHANGED ghost
    \/ \E u \in Users, c \in RequestedCourses, fault \in Faults :
          generate_qr(u, c, fault) /\ UNCHANGED ghost

SpecQr == InitQr /\ [][NextQr]_vars

\* C19: generate_qr requested by the owner of an existing course, with
\* nothing failing, answers 200 with {success: true, qr_code_url, message}
\* and stores the generated image and its URL on that course.
C19_OwnerGetsQr ==
    (last.op = "generate_qr" /\ last.matched /\ last.fault = "none")
       => /\ last.result = "200"
          /\ last.body.success = "true"
          /\ last.body.message # "absent"
          /\ last.body.error = "absent"
          /\ courses[last.course].qr_code # NoFile
          /\ courses[last.course].qr_code_url
                = QrUrl(courses[last.course].qr_code)
          /\ last.body.qr_code_url = courses[last.course].qr_code_url

\* C20: generate_qr answers 404 for a course id that has no row and 403 for
\* a course of another lecturer, and in both cases, and when it answers 500,
\* the qr_code and qr_code_url of every course stay as they were.
C20_RefusalsChangeNothing ==
    [][(/\ last'.op = "generate_qr"
        /\ last' # last
        /\ last'.user \in sessions)
          => /\ (last'.course \notin CourseIds \/ ~courses[last'.course].exists)
                   => last'.result = "404"
             /\ (/\ last'.course \in CourseIds
                 /\ courses[last'.course].exists
                 /\ courses[last'.course].lecturer # last'.user)
                   => last'.result = "403"
             /\ last'.result \in {"404", "403", "500"}
                   => courses' = courses]_vars

\* a logged-in lecturer was refused the code of another lecturer's course
\* while owning a course as well
C20_Witness ==
    /\ last.op = "generate_qr"
    /\ last.result = "403"
    /\ last.user \in sessions
    /\ courses[last.course].exists
    /\ courses[last.course].lecturer # last.user
    /\ \E c \in CourseIds : courses[c].exists /\ courses[c].lecturer = last.user

\* ------------------------------------------------ QR payload, recorded
\* generate_qr, with the payload it built recorded next to the course
\* fields and the timestamp it was built from
QrTracked(u, course_id, fault) ==
    /\ generate_qr(u, course_id, fault)
    /\ issued' = IF last'.matched
                 THEN issued \cup
                        {[course_id |-> course_id,
                          title |-> courses[course_id].title,
                          day |-> courses[course_id].day,
                          start_time |-> courses[course_id].start_time,
                          end_time |-> courses[course_id].end_time,
                          timestamp |-> now,
                          payload |-> last'.payload]}
                 ELSE issued
    /\ Cardinality(issued') <= MaxIssued
    /\ UNCHANGED <<streak, ipFails, superseded, consumed, viaRegister>>

\* the course forms of this scenario: the valid ones whose end time has
\* seconds, one for each title
PayloadForms ==
    {form \in CourseForms : CourseFormValid(form) /\ form.end_time[3] # 0}

\* the clock steps of this scenario: a minute, and the rest of an hour
PayloadSteps == {1, 59}

NextPayload ==
    \/ login_view(1, <<"a", 0>>, "pw") /\ UNCHANGED ghost
    \/ \E form \in PayloadForms : add_course(1, form) /\ UNCHANGED ghost
    \/ \E c \in CourseIds : QrTracked(1, c, "none")
    \/ \E d \in PayloadSteps : Tick(d) /\ UNCHANGED ghost

SpecPayload == InitQr /\ [][NextPayload]_vars

\* the inputs a recorded payload was built from
PayloadInputs(r) ==
    <<r.course_id, r.title, r.day, r.start_time, r.end_time, r.timestamp>>

\* C21: the payload generate_qr builds is a function of (course id, title,
\* day, start time, end time, timestamp) only: equal inputs give equal
\* payloads, different timestamps give different payloads, and different
\* courses never give the same payload.
C21_PayloadDeterminedByCourseAndTime ==
    \A r1 \in issued, r2 \in issued :
       /\ PayloadInputs(r1) = PayloadInputs(r2) => r1.payload = r2.payload
       /\ r1.timestamp # r2.timestamp => r1.payload # r2.payload
       /\ r1.course_id # r2.course_id => r1.payload # r2.payload
       /\ r1.payload # NoPayload

\* payloads were built for one course at two times less than an hour apart
\* and for two courses that differ in nothing but their id at one time
C21_Witness ==
    /\ \E r1 \in issued, r2 \in issued :
          /\ r1.course_id = r2.course_id
          /\ r1.timestamp # r2.timestamp
          /\ r1.timestamp \div 60 = r2.timestamp \div 60
    /\ \E r1 \in issued, r2 \in issued :
          /\ r1.course_id # r2.course_id
          /\ <<r1.title, r1.day, r1.start_time, r1.end_time, r1.timestamp>>
                = <<r2.title, r2.day, r2.start_time, r2.end_time, r2.timestamp>>

\* -------------------------------------------------------------- attendance
\* the primary key the next Attendance row gets
NewAttendanceId ==
    CHOOSE k \in AttendanceIds :
       /\ ~attendances[k].exists
       /\ \A j \in AttendanceIds : j < k => attendances[j].exists

\* what a student types: a name and an admission number, either can be empty
StudentNames == {"", "s"}
StudentAdminNos == {"", "7"}

\* AttendanceForm.is_valid(): both fields are required
AttendanceFormValid(student_name, student_admin_no) ==
    student_name # "" /\ student_admin_no # ""

\* lines 510 and 516 can run: AttendanceForm is a name of the module
FormReachable == "AttendanceForm" \in ViewsGlobals

\* the status attendance_view answers with
AttendanceStatus(method, course_id, student_name, student_admin_no) ==
    IF course_id \notin CourseIds \/ ~courses[course_id].exists
    THEN "302"                      \* Course.DoesNotExist: to the dashboard
    ELSE IF ~FormReachable THEN "500"        \* NameError, not caught
    ELSE IF method = "POST"
            /\ AttendanceFormValid(student_name, student_admin_no)
         THEN "302"                 \* saved: back to the attendance page
    ELSE "200"

\* attendance_view, open to everybody: no login_required
attendance_view(method, course_id, student_name, student_admin_no) ==
    LET status ==
          AttendanceStatus(method, course_id, student_name, student_admin_no)
        found == course_id \in CourseIds /\ courses[course_id].exists
        saved == found /\ status = "302"
    IN /\ saved => \E k \in AttendanceIds : ~attendances[k].exists
       /\ attendances' =
             IF saved
             THEN [attendances EXCEPT ![NewAttendanceId] =
                     [exists |-> TRUE, course |-> course_id,
                      student_name |-> student_name,
                      student_admin_no |-> student_admin_no,
                      timestamp |-> now]]
             ELSE attendances
       /\ last' = [NoLast EXCEPT
                     !.op = "attendance", !.method = method,
                     !.course = course_id, !.result = status,
                     !.matched = found,
                     !.student_name = student_name,
                     !.student_admin_no = student_admin_no]
       /\ UNCHANGED <<now, ticks, db, ledger, sessions, login_log, next_token,
                      inflight, courses>>

\* the Attendance rows stored before the run (admin site): none, or one of
\* the first course
SeedAttendances ==
    { [k \in AttendanceIds |-> NoAttendance],
      [k \in AttendanceIds |->
         IF k = 1
         THEN [exists |-> TRUE, course |-> 1, student_name |-> "s",
               student_admin_no |-> "7", timestamp |-> 0]
         ELSE NoAttendance] }

\* a verified lecturer with one course, and the seeded attendance rows
InitAttendance ==
    /\ now = 0
    /\ ticks = 0
    /\ db = [u \in Users |-> IF u = 1 THEN Member("a") ELSE Blank]
    /\ ledger = EmptyBag
    /\ sessions = {}
    /\ login_log = {}
    /\ next_token = 0
    /\ last = NoLast
    /\ InitGhost
    /\ inflight = [p \in Procs |-> Idle]
    /\ courses = [c \in CourseIds |->
                    IF c = 1
                    THEN [NoCourse EXCEPT
                            !.exists = TRUE, !.lecturer = 1,
                            !.title = <<"n">>, !.day = "Monday",
                            !.start_time = <<8, 0, 0>>,
                            !.end_time = <<9, 30, 0>>]
                    ELSE NoCourse]
    /\ attendances \in SeedAttendances

Methods == {"GET", "POST"}

NextAttendance ==
    \/ \E method \in Methods, c \in RequestedCourses,
          student_name \in StudentNames,
          student_admin_no \in StudentAdminNos :
          attendance_view(method, c, student_name, student_admin_no)
             /\ UNCHANGED ghost
    \/ login_view(1, <<"a", 0>>, "pw") /\ UNCHANGED ghost
    \/ \E form \in QrForms : add_course(1, form) /\ UNCHANGED ghost
    \/ Tick(1) /\ UNCHANGED ghost

SpecAttendance == InitAttendance /\ [][NextAttendance]_vars

\* C22: a valid POST to attendance_view for an existing course, by anybody,
\* creates exactly one Attendance record of that course with the submitted
\* name and admission number; a request for a course id without a row
\* creates none; and no request changes a record that exists.
C22_SubmissionStoresOneRecord ==
    [][(last'.op = "attendance" /\ last' # last)
          => /\ (/\ last'.method = "POST"
                 /\ last'.matched
                 /\ AttendanceFormValid(last'.student_name,
                                        last'.student_admin_no))
                   => \E k \in AttendanceIds :
                         /\ ~attendances[k].exists
                         /\ attendances'[k].exists
                         /\ attendances'[k].course = last'.course
                         /\ attendances'[k].student_name = last'.student_name
                         /\ attendances'[k].student_admin_no
                               = last'.student_admin_no
                         /\ \A j \in AttendanceIds \ {k} :
                               attendances'[j] = attendances[j]
             /\ ~last'.matched => attendances' = attendances
             /\ \A k \in AttendanceIds :
                   attendances[k].exists => attendances'[k] = attendances[k]]_vars

\* ------------------------------------------- registrations from an address
\* registrations from address 1: forms that fail, forms that pass
NextRegister ==
    \/ RegisterTracked(1, FALSE, <<"a", "x">>, "pw", NoUsername, 1, TRUE)
    \/ \E email \in Emails, mail_ok \in BOOLEAN :
          RegisterTracked(1, TRUE, email, "pw", NoUsername, 1, mail_ok)
    \/ \E d \in {1, HOUR_WINDOW_MINUTES} : Tick(d) /\ UNCHANGED ghost

SpecRegister == InitEmpty /\ [][NextRegister]_vars

\* C23: with 5 failed registration attempts from an address on record within
\* the last 60 minutes, a further register POST with a valid form from that
\* address is answered 'Too many registration attempts' and creates no
\* account.
C23_SixthRegistrationRejected ==
    [][(/\ last'.op = "register"
        /\ last' # last
        /\ last'.result # "form_invalid"
        /\ FailuresInWindow(RawIp(last'.ip), HOUR_WINDOW_MINUTES)
              >= REGISTER_MAX_ATTEMPTS)
          => (last'.result = "rate_limited" /\ db' = db)]_vars

\* C24: the code initiate_email_change generates is stored with the account:
\* while a change is pending and not older than 15 minutes, a request that
\* has loaded the account again can confirm it with the matching code, which
\* sets email to new_email.
C24_CodeRedeemsInLaterRequest ==
    \A u \in Users :
       (/\ db[u].exists
        /\ db[u].new_email # NoEmail
        /\ db[u].email_change_token_created # None
        /\ now - db[u].email_change_token_created <= EMAIL_CHANGE_MINUTES
        /\ db[u].email_verification_code = Absent)
          => \E code \in Codes :
                /\ ConfirmResult(u, code) = "changed"
                /\ ConfirmAccount(u, code).email = db[u].new_email

\* ------------------------------------------------ addresses of the accounts
\* registrations and e-mail changes of the accounts, in any order
NextAddresses ==
    \/ \E email \in Emails :
          RegisterTracked(1, TRUE, email, "pw", NoUsername, 1, TRUE)
    \/ \E u \in Users, new_email \in ChangeEmails :
          InitiateTracked(u, new_email, FALSE, 1, TRUE)
    \/ \E u \in Users : ConfirmTracked(u, 1)

SpecAddresses == InitEmpty /\ [][NextAddresses]_vars

\* C25: after any sequence and interleaving of register,
\* initiate_email_change and confirm_email_change, no two accounts hold the
\* same email address.
C25_EmailsPairwiseDifferent ==
    \A u \in Users, v \in Users :
       (u # v /\ db[u].exists /\ db[v].exists) => db[u].email # db[v].email

\* ------------------------------------------------------------ the sessions
\* everything that can establish or end a session, and the verification
\* that has to come first
NextSessions ==
    \/ \E uname \in LoginNames, pw \in LoginPasswords :
          LoginCounted(1, uname, pw)
    \/ \E mail_ok \in BOOLEAN :
          RegisterTracked(1, TRUE, <<"b", "x">>, "pw", NoUsername, 1, mail_ok)
    \/ \E token \in Tokens : VerifyTracked(token, 1)
    \/ \E u \in Users : logout_view(u) /\ UNCHANGED ghost

SpecSessions == InitLogin /\ [][NextSessions]_vars

\* C26: no session is ever established for an account whose email is not
\* verified: every logged-in account has email_verified = true.
C26_SessionsAreVerified ==
    \A u \in sessions : db[u].email_verified

\* C27: a confirm_email_change that fails never changes the account's email:
\* with a wrong verification code it returns (False, ...) and leaves email,
\* new_email and the challenge as they were; with an expired token or code
\* it returns (False, ...), leaves email and clears new_email and every
\* challenge field.
C27_FailedConfirmKeepsEmail ==
    [][(last'.op = "confirm" /\ last' # last)
          => LET u == last'.user
                 verification_code == last'.token
                 cleared ==
                    /\ db'[u].new_email = NoEmail
                    /\ db'[u].email_change_token = None
                    /\ db'[u].email_change_token_created = None
                    /\ db'[u].email_verification_code = None
                    /\ db'[u].email_verification_code_created = None
             IN /\ last'.result # "changed" => db'[u].email = db[u].email
                /\ (/\ verification_code # None
                    /\ db[u].new_email # NoEmail
                    /\ verification_code # db[u].email_verification_code)
                      => (last'.result = "invalid_code" /\ db'[u] = db[u])
                /\ (/\ verification_code # None
                    /\ db[u].new_email # NoEmail
                    /\ verification_code = db[u].email_verification_code
                    /\ now - db[u].email_verification_code_created
                          > EMAIL_CHANGE_MINUTES)
                      => (last'.result = "expired" /\ cleared)
                /\ (/\ verification_code = None
                    /\ db[u].new_email # NoEmail
                    /\ db[u].email_change_token # None
                    /\ now - db[u].email_change_token_created
                          > EMAIL_CHANGE_MINUTES)
                      => (last'.result = "expired" /\ cleared)]_vars

\* ---------------------------------------------------------- the whole app
Init == InitLogin

Next ==
    \/ \E ip \in Ips, uname \in LoginNames, pw \in LoginPasswords :
          LoginCounted(ip, uname, pw)
    \/ \E u \in Users : logout_view(u) /\ UNCHANGED ghost
    \/ \E ip \in Ips, valid \in BOOLEAN, email \in Emails, pw \in Passwords,
          code \in Codes, mail_ok \in BOOLEAN :
          RegisterTracked(ip, valid, email, pw, NoUsername, code, mail_ok)
    \/ \E ip \in Ips, email \in Emails, code \in Codes, mail_ok \in BOOLEAN :
          ResendTracked(ip, email, code, mail_ok)
    \/ \E token \in Tokens, code \in Codes : VerifyTracked(token, code)
    \/ \E u \in Users, new_email \in ChangeEmails, has_request \in BOOLEAN,
          code \in Codes, mail_ok \in BOOLEAN :
          InitiateTracked(u, new_email, has_request, code, mail_ok)
    \/ \E u \in Users, code \in CodeInputs : ConfirmTracked(u, code)
    \/ \E u \in Users : Reload(u) /\ UNCHANGED ghost
    \/ \E u \in Users, debug \in BOOLEAN, mail \in MailOutcomes :
          SendEmailChangeCall(u, debug, mail) /\ UNCHANGED ghost
    \/ \E p \in Procs, u \in Users, code \in CodeInputs :
          ConfirmRead(p, u, code) /\ UNCHANGED ghost
    \/ \E p \in Procs : ConfirmCheck(p) /\ UNCHANGED ghost
    \/ \E p \in Procs : ConfirmSave(p) /\ UNCHANGED ghost
    \/ \E p \in Procs, token \in Tokens :
          VerifyRead(p, token) /\ UNCHANGED ghost
    \/ \E p \in Procs : VerifyCheck(p) /\ UNCHANGED ghost
    \/ \E u \in Users, form \in CourseForms :
          add_course(u, form) /\ UNCHANGED ghost
    \/ \E u \in Users, c \in RequestedCourses, fault \in Faults :
          QrTracked(u, c, fault)
    \/ \E method \in Methods, c \in RequestedCourses,
          student_name \in StudentNames,
          student_admin_no \in StudentAdminNos :
          attendance_view(method, c, student_name, student_admin_no)
             /\ UNCHANGED ghost
    \/ \E d \in {1, LOCKOUT_MINUTES, TOKEN_VALID_MINUTES} :
          Tick(d) /\ UNCHANGED ghost

Spec == Init /\ [][Next]_vars

====
